---- MODULE Spec2Model ----
(***************************************************************************)
(* Valid8Context (src/src/context.rs): the in-memory context of a project, *)
(* its persisted aggregate config, the remote ledger it clones from, the   *)
(* override journal and the compose resolver.                              *)
(***************************************************************************)
EXTENDS Integers, Sequences, FiniteSets, TLC

VARIABLES
    programs,         \* Valid8Context.programs : Vec<AccountSchema>
    accounts,         \* Valid8Context.accounts : Vec<AccountSchema>
    overrides,        \* Valid8Context.overrides : Option<Vec<Override>>
    idls,             \* Valid8Context.idls : Vec<String>
    networks,         \* Valid8Context.networks : HashSet<Network>
    compose,          \* Valid8Context.compose : Option<String>
    saved,            \* the aggregate config file written by try_save_config
    disc,             \* per-record files written by helpers::save_account_to_disc
    last,             \* the last call made on the context and what it returned
    calls,            \* number of calls made on the context so far
    configs,          \* the config files of the sibling projects (compose parents)
    pc,               \* position of try_compose
    this_ctx,         \* try_compose: local this_ctx
    compose_count,    \* try_compose: local compose_count
    new_config_path,  \* try_compose: local new_config_path
    loads,            \* try_compose: parent configs opened so far
    replay            \* an edit list applied twice: the list and how far it got

vars == <<programs, accounts, overrides, idls, networks, compose, saved, disc,
          last, calls, configs, pc, this_ctx, compose_count, new_config_path, loads,
          replay>>

ctxVars == <<programs, accounts, overrides, idls, networks, compose, saved, disc>>
composeVars == <<configs, pc, this_ctx, compose_count, new_config_path, loads>>

----------------------------------------------------------------------------
(* Bounds of the model.                                                     *)

\* calls made on one context in one run
MaxCalls == 3
\* parents of the longest compose chain
MaxChain == 22
\* parents of a compose chain whose configs' contents vary
MaxRichChain == 2
\* entries of a list of a config
MaxLen == 2
\* edits of an edit list that is applied twice
MaxEdits == 2

----------------------------------------------------------------------------
(* Option values.                                                           *)

None == "None"
NoList == [some |-> FALSE, list |-> <<>>]
SomeList(l) == [some |-> TRUE, list |-> l]
NoName == [some |-> FALSE, name |-> 0]
SomeName(n) == [some |-> TRUE, name |-> n]

----------------------------------------------------------------------------
(* Identifiers and the remote ledger.                                       *)

SYSTEM_PROGRAM == "11111111111111111111111111111111"
BPF_LOADER_UPGRADEABLE == "BPFLoaderUpgradeab1e11111111111111111111111"
TOKEN_PROGRAM == "TokenkegQfeZyiNwAJbNbGKPFXCWuBvf9Ss623VQ5DA"
NATIVE_LOADER == "NativeLoader1111111111111111111111111111111"

\* the match arms of add_program_unchecked that add nothing
IsSystemId(k) ==
    \/ k = BPF_LOADER_UPGRADEABLE
    \/ k = TOKEN_PROGRAM
    \/ k = SYSTEM_PROGRAM

SystemIds == {BPF_LOADER_UPGRADEABLE, TOKEN_PROGRAM, SYSTEM_PROGRAM}

Networks == {"devnet"}

\* account data: the decoded UpgradeableLoaderState, and whether the data
\* slice is long enough to hold a serialized ProgramData header
RawData == [kind |-> "Raw", fits |-> FALSE, slot |-> 0, auth |-> None, link |-> None]
ProgramState(pd) == [kind |-> "Program", fits |-> FALSE, slot |-> 0, auth |-> None, link |-> pd]
ProgramDataState(s, a) == [kind |-> "ProgramData", fits |-> TRUE, slot |-> s, auth |-> a, link |-> None]

\* what the remote networks hold: P is an upgradeable program, PD its
\* program data, A an account that P owns
Ledger ==
    [k \in {SYSTEM_PROGRAM, BPF_LOADER_UPGRADEABLE, TOKEN_PROGRAM, "P", "PD", "A"} |->
        CASE k = "P"  -> [owner |-> BPF_LOADER_UPGRADEABLE, lamports |-> 1, executable |-> TRUE,
                          data |-> ProgramState("PD")]
          [] k = "PD" -> [owner |-> BPF_LOADER_UPGRADEABLE, lamports |-> 1, executable |-> FALSE,
                          data |-> ProgramDataState(5, "U")]
          [] k = "A"  -> [owner |-> "P", lamports |-> 1, executable |-> FALSE, data |-> RawData]
          [] OTHER    -> [owner |-> NATIVE_LOADER, lamports |-> 1, executable |-> TRUE,
                          data |-> RawData]]

LedgerKeys == DOMAIN Ledger

AccountSchema(k, net, a) ==
    [pubkey |-> k, network |-> net, owner |-> a.owner, lamports |-> a.lamports,
     executable |-> a.executable, data |-> a.data]

NoAccount == AccountSchema(None, None, [owner |-> None, lamports |-> 0, executable |-> FALSE,
                                        data |-> RawData])

\* helpers::fetch_account(network, pubkey); up: the remote answers
fetch_account(net, k, up) ==
    IF up /\ k \in LedgerKeys
    THEN [ok |-> TRUE, rec |-> AccountSchema(k, net, Ledger[k])]
    ELSE [ok |-> FALSE, rec |-> NoAccount]

\* helpers::clone_program_data(ctx, program_account): the record of the
\* program's data resource
clone_program_data(prog, up) ==
    IF prog.data.kind = "Program"
    THEN fetch_account(prog.network, prog.data.link, up)
    ELSE [ok |-> FALSE, rec |-> NoAccount]

----------------------------------------------------------------------------
(* The context as a value, and its persisted form.                          *)

Ctx == [programs |-> programs, accounts |-> accounts, overrides |-> overrides,
        idls |-> idls, networks |-> networks, compose |-> compose,
        saved |-> saved, disc |-> disc]

\* an entry of ConfigJson.programs / ConfigJson.accounts
ConfigEntry(rec) == <<rec.pubkey, rec.network>>

\* ConfigJson::from(Valid8Context)
ConfigJsonFrom(c) ==
    [programs |-> [i \in 1..Len(c.programs) |-> ConfigEntry(c.programs[i])],
     accounts |-> [i \in 1..Len(c.accounts) |-> ConfigEntry(c.accounts[i])],
     overrides |-> c.overrides,
     idls |-> c.idls,
     networks |-> c.networks,
     compose |-> c.compose]

NoDisc == [k \in LedgerKeys |-> NoAccount]

\* Valid8Context::default(), as try_init_config writes it
EmptyCtx ==
    LET c == [programs |-> <<>>, accounts |-> <<>>, overrides |-> NoList, idls |-> <<>>,
              networks |-> {}, compose |-> NoName, saved |-> <<>>, disc |-> NoDisc]
    IN  [c EXCEPT !.saved = ConfigJsonFrom(c)]

Ret(c, res, fetches, writes) == [c |-> c, res |-> res, fetches |-> fetches, writes |-> writes]

\* try_save_config: rewrite the aggregate config file; up: the file system
\* lets the file be created and written
try_save_config(c, up, fetches) ==
    IF up
    THEN Ret([c EXCEPT !.saved = ConfigJsonFrom(c)], "ok", fetches, 1)
    ELSE Ret(c, "err_save", fetches, 0)

RECURSIVE Position(_, _, _)
\* index of the first record of s with pubkey k, from index i; 0 when none
Position(s, k, i) ==
    IF i > Len(s) THEN 0
    ELSE IF s[i].pubkey = k THEN i
    ELSE Position(s, k, i + 1)

has_account(c, k) == Position(c.accounts, k, 1) # 0
has_program(c, k) == Position(c.programs, k, 1) # 0

----------------------------------------------------------------------------
(* add_program / add_account.                                               *)

add_idl_Twice(c, k) == [c EXCEPT !.idls = Append(Append(@, k), k)]

add_idl(c, k) == [c EXCEPT !.idls = Append(@, k)]

\* line 265: self.programs.push(program_account.clone())
PushProgram(c, rec) == [c EXCEPT !.programs = Append(@, rec)]

PushProgramData_Twice(c, rec) == [c EXCEPT !.accounts = Append(Append(@, rec), rec)]

\* line 269: self.accounts.push(program_data_account)
PushProgramData(c, rec) == [c EXCEPT !.accounts = Append(@, rec)]

\* o: what the collaborators answer during the call
add_program_unchecked(c, net, k, o) ==
    LET f == fetch_account(net, k, o.fetch) IN
    IF ~f.ok THEN Ret(c, "err_fetch", 1, 0)
    ELSE IF IsSystemId(k) THEN try_save_config(c, o.save, 1)
    ELSE LET c1 == PushProgram(c, f.rec)
             d  == clone_program_data(f.rec, o.data)
         IN  IF ~d.ok THEN Ret(c1, "err_fetch", 2, 0)
             ELSE LET c2 == PushProgramData(c1, d.rec)
                      c3 == IF o.idl THEN add_idl(c2, k) ELSE c2
                  IN  try_save_config(c3, o.save, 3)

add_program(c, net, k, o) ==
    IF has_program(c, k) THEN Ret(c, "ok", 0, 0)
    ELSE add_program_unchecked(c, net, k, o)

PushAccount_Saves(c, net, rec) ==
    LET c1 == [c EXCEPT !.accounts = Append(@, rec), !.networks = @ \cup {net}]
    IN  [c1 EXCEPT !.saved = ConfigJsonFrom(c1)]

\* lines 296-297: self.accounts.push(account.clone()); self.networks.insert(..)
PushAccount(c, net, rec) ==
    [c EXCEPT !.accounts = Append(@, rec), !.networks = @ \cup {net}]

add_account_unchecked(c, net, k, o) ==
    LET f == fetch_account(net, k, o.fetch) IN
    IF ~f.ok THEN Ret(c, "err_fetch", 1, 0)
    ELSE LET c1 == PushAccount(c, net, f.rec)
         IN  IF has_program(c1, f.rec.owner)
             THEN try_save_config(c1, o.save, 1)
             ELSE LET r == add_program_unchecked(c1, net, f.rec.owner,
                                                 [o EXCEPT !.fetch = o.owner])
                  IN  [r EXCEPT !.fetches = @ + 1]

add_account(c, net, k, o) ==
    IF has_account(c, k) THEN Ret(c, "ok", 0, 0)
    ELSE add_account_unchecked(c, net, k, o)

----------------------------------------------------------------------------
(* The override journal and the edits.                                      *)

Lamports(v) == [tag |-> "Lamports", val |-> v, key |-> None]
Owner(k) == [tag |-> "Owner", val |-> 0, key |-> k]
UpgradeAuthority(k) == [tag |-> "UpgradeAuthority", val |-> 0, key |-> k]
Data(j) == [tag |-> "Data", val |-> 0, key |-> j]

Override(k, edits) == [pubkey |-> k, edit_fields |-> edits]
\* Override::new
OverrideNew(k, e) == Override(k, <<e>>)

RemoveAt(s, i) == SubSeq(s, 1, i - 1) \o SubSeq(s, i + 1, Len(s))

get_account_Anywhere(c, k) ==
    LET position == Position(c.accounts, k, 1)
        executable == Position(c.programs, k, 1)
    IN  IF position # 0
        THEN [found |-> TRUE, rec |-> c.accounts[position],
              c |-> [c EXCEPT !.accounts = RemoveAt(@, position)]]
        ELSE IF executable # 0
        THEN [found |-> TRUE, rec |-> c.programs[executable],
              c |-> [c EXCEPT !.programs = RemoveAt(@, executable)]]
        ELSE [found |-> FALSE, rec |-> NoAccount, c |-> c]

\* get_account: moves the first record with this pubkey out of accounts
get_account(c, k) ==
    LET position == Position(c.accounts, k, 1) IN
    IF position = 0
    THEN [found |-> FALSE, rec |-> NoAccount, c |-> c]
    ELSE [found |-> TRUE, rec |-> c.accounts[position],
          c |-> [c EXCEPT !.accounts = RemoveAt(@, position)]]

add_override(c, over) ==
    IF c.overrides.some
    THEN [c EXCEPT !.overrides = SomeList(Append(@.list, over))]
    ELSE [c EXCEPT !.overrides = SomeList(<<over>>)]

\* helpers::save_account_to_disc
save_account_to_disc(c, rec) == [c EXCEPT !.disc[rec.pubkey] = rec]

\* lines 399-402 and 366-369: save the record, push it back, journal, persist
Reinsert(c, rec, k, e, o) ==
    IF ~o.disc THEN Ret(c, "err_disc", 0, 0)
    ELSE LET c1 == save_account_to_disc(c, rec)
             c2 == [c1 EXCEPT !.accounts = Append(@, rec)]
             c3 == add_override(c2, OverrideNew(k, e))
         IN  try_save_config(c3, o.save, 0)

SetField_Adds(rec, e) ==
    IF e.tag = "Lamports" THEN [rec EXCEPT !.lamports = @ + e.val]
    ELSE IF e.tag = "Owner" THEN [rec EXCEPT !.owner = e.key]
    ELSE rec

\* the Lamports and Owner arms of both edit functions
SetField(rec, e) ==
    IF e.tag = "Lamports" THEN [rec EXCEPT !.lamports = e.val]
    ELSE IF e.tag = "Owner" THEN [rec EXCEPT !.owner = e.key]
    ELSE rec

edit_account(c, k, e, o) ==
    LET g == get_account(c, k) IN
    IF ~g.found THEN Ret(c, "err_notfound", 0, 0)
    ELSE IF e.tag = "UpgradeAuthority" THEN Ret(g.c, "err_unsupported", 0, 0)
    ELSE IF e.tag = "Data" THEN Ret(g.c, "panic", 0, 0)
    ELSE Reinsert(g.c, SetField(g.rec, e), k, e, o)

\* AccountSchema::to_account / AccountSchema::from_account
to_account(rec) ==
    [owner |-> rec.owner, lamports |-> rec.lamports, executable |-> rec.executable,
     data |-> rec.data]
from_account(acc, k, net) == AccountSchema(k, net, acc)

\* StateMut::set_state with UpgradeableLoaderState::ProgramData { slot: 0,
\* upgrade_authority_address: Some(new) }: serializes over the head of the
\* data slice, and fails when the slice is too short
set_state(acc, new) ==
    IF acc.data.fits
    THEN [ok |-> TRUE, acc |-> [acc EXCEPT !.data = ProgramDataState(0, new)]]
    ELSE [ok |-> FALSE, acc |-> acc]

edit_program(c, k, e, o) ==
    LET g == get_account(c, k) IN
    IF ~g.found THEN Ret(c, "err_notfound", 0, 0)
    ELSE IF e.tag = "UpgradeAuthority"
         THEN LET st == set_state(to_account(g.rec), e.key) IN
              IF ~st.ok THEN Ret(g.c, "err_encode", 0, 0)
              ELSE Reinsert(g.c, from_account(st.acc, g.rec.pubkey, g.rec.network), k, e, o)
    ELSE Reinsert(g.c, SetField(g.rec, e), k, e, o)

\* apply_overrides: the closure over the journal is handed to Iterator::map
\* and the adaptor is bound to _ and dropped; nothing consumes it, so the
\* closure runs for no entry and the call returns Ok(())
apply_overrides(c) == Ret(c, "ok", 0, 0)

----------------------------------------------------------------------------
(* Inputs.                                                                  *)

AddKeys == {SYSTEM_PROGRAM, BPF_LOADER_UPGRADEABLE, "P", "PD", "A"}
EditKeys == {"A", "PD", "P"}
EditInputs == {Lamports(2), Lamports(3), Owner("X"), UpgradeAuthority("X"), Data("json")}
OverrideInputs ==
    {Override("A", <<Lamports(2), Lamports(3)>>), Override("A", <<Owner("X")>>),
     Override("PD", <<UpgradeAuthority("X")>>), Override("P", <<Lamports(2)>>)}

\* what the collaborators answer during one call: the remote for the record
\* asked for, for the owner program and for the program data, the metadata
\* descriptor lookup, the config file and the per-record file. A call ends
\* at the first collaborator that fails (the descriptor lookup excepted), so
\* one failing collaborator at most is drawn.
Up == [fetch |-> TRUE, owner |-> TRUE, data |-> TRUE, idl |-> TRUE, save |-> TRUE,
       disc |-> TRUE]
Failing(steps) == {Up} \cup {[Up EXCEPT ![f] = FALSE] : f \in steps}
ProgramOracles ==
    {[o EXCEPT !.idl = i] : o \in Failing({"fetch", "data", "save"}), i \in BOOLEAN}
AccountOracles ==
    {[o EXCEPT !.idl = i] : o \in Failing({"fetch", "owner", "data", "save"}), i \in BOOLEAN}
EditOracles == Failing({"disc", "save"})

----------------------------------------------------------------------------
(* The calls on a context.                                                  *)

Idle == [op |-> "init", key |-> None, net |-> None, edits |-> <<>>, res |-> "ok",
         val |-> 0, fetches |-> 0, writes |-> 0]

ReplayIdle ==
    [key |-> None, op |-> None, edits |-> <<>>, i |-> 0, pass |-> 0, first |-> <<>>,
     st |-> "idle"]

ComposeIdle ==
    /\ configs = <<>>
    /\ pc = "idle"
    /\ this_ctx = ConfigJsonFrom(EmptyCtx)
    /\ compose_count = 0
    /\ new_config_path = NoName
    /\ loads = 0

Init ==
    /\ programs = EmptyCtx.programs
    /\ accounts = EmptyCtx.accounts
    /\ overrides = EmptyCtx.overrides
    /\ idls = EmptyCtx.idls
    /\ networks = EmptyCtx.networks
    /\ compose = EmptyCtx.compose
    /\ saved = EmptyCtx.saved
    /\ disc = EmptyCtx.disc
    /\ last = Idle
    /\ calls = 0
    /\ ComposeIdle
    /\ replay = ReplayIdle

\* a todo!() that was reached has ended the process
Alive == last.res # "panic"

\* the call leaves the context as r.c and hands r.res to the caller
Outcome(r, op, k, net, edits) ==
    /\ programs' = r.c.programs
    /\ accounts' = r.c.accounts
    /\ overrides' = r.c.overrides
    /\ idls' = r.c.idls
    /\ networks' = r.c.networks
    /\ compose' = r.c.compose
    /\ saved' = r.c.saved
    /\ disc' = r.c.disc
    /\ last' = [op |-> op, key |-> k, net |-> net, edits |-> edits, res |-> r.res,
                val |-> 0, fetches |-> r.fetches, writes |-> r.writes]
    /\ calls' = calls + 1
    /\ UNCHANGED composeVars

Returns(r, op, k, net, edits) ==
    /\ Alive
    /\ calls < MaxCalls
    /\ Outcome(r, op, k, net, edits)
    /\ UNCHANGED replay

AddProgram ==
    \E net \in Networks, k \in AddKeys, o \in ProgramOracles :
        Returns(add_program(Ctx, net, k, o), "add_program", k, net, <<>>)

AddAccount ==
    \E net \in Networks, k \in AddKeys, o \in AccountOracles :
        Returns(add_account(Ctx, net, k, o), "add_account", k, net, <<>>)

AddOverride ==
    \E over \in OverrideInputs :
        Returns(Ret(add_override(Ctx, over), "ok", 0, 0), "add_override",
                over.pubkey, None, over.edit_fields)

ApplyOverrides ==
    Returns(apply_overrides(Ctx), "apply_overrides", None, None, <<>>)

EditAccount ==
    \E k \in EditKeys, e \in EditInputs, o \in EditOracles :
        Returns(edit_account(Ctx, k, e, o), "edit_account", k, None, <<e>>)

EditProgram ==
    \E k \in EditKeys, e \in EditInputs, o \in EditOracles :
        Returns(edit_program(Ctx, k, e, o), "edit_program", k, None, <<e>>)

Next ==
    \/ AddProgram
    \/ AddAccount
    \/ AddOverride
    \/ ApplyOverrides
    \/ EditAccount
    \/ EditProgram

Spec == Init /\ [][Next]_vars

----------------------------------------------------------------------------
(* try_compose.                                                             *)

MaxComposeDepth == 20

DepthExceeded_OffByOne(count) == count >= MaxComposeDepth
DepthExceeded_Never(count) == FALSE

\* line 204: compose_count > 20
DepthExceeded(count) == count > MaxComposeDepth

Contains(s, x) == \E i \in 1..Len(s) : s[i] = x

RECURSIVE MergeList_NoCheck(_, _)
MergeList_NoCheck(acc, new) ==
    IF new = <<>> THEN acc
    ELSE MergeList_NoCheck(Append(acc, Head(new)), Tail(new))

RECURSIVE MergeList(_, _)
\* new.iter().for_each(|x| if !acc.contains(x) { acc.push(x.clone()) })
MergeList(acc, new) ==
    IF new = <<>> THEN acc
    ELSE MergeList(IF Contains(acc, Head(new)) THEN acc ELSE Append(acc, Head(new)),
                   Tail(new))

MergeOverrides_Creates(mine, theirs) ==
    IF theirs.some THEN SomeList(MergeList(mine.list, theirs.list))
    ELSE mine

\* lines 224-230: the parent's overrides go into an overrides list that the
\* accumulator already has
MergeOverrides(mine, theirs) ==
    IF theirs.some /\ mine.some THEN SomeList(MergeList(mine.list, theirs.list))
    ELSE mine

\* lines 208-231: one parent merged into the accumulator
Merge(acc, new_ctx) ==
    [acc EXCEPT !.accounts = MergeList(@, new_ctx.accounts),
                !.programs = MergeList(@, new_ctx.programs),
                !.idls = MergeList(@, new_ctx.idls),
                !.networks = @ \cup new_ctx.networks,
                !.overrides = MergeOverrides(@, new_ctx.overrides)]

\* the project's own config file has name 0; its siblings' the names in configs
try_open_config(name) ==
    IF name = 0 THEN [ok |-> TRUE, config |-> saved]
    ELSE IF name \in DOMAIN configs THEN [ok |-> TRUE, config |-> configs[name]]
    ELSE [ok |-> FALSE, config |-> saved]

\* the record that an entry of a config stands for
EntryRecord(e) ==
    AccountSchema(e[1], e[2],
                  IF e[1] \in LedgerKeys THEN Ledger[e[1]] ELSE Ledger["A"])

\* ConfigJson::to_context
to_context(cfg) ==
    [programs |-> [i \in 1..Len(cfg.programs) |-> EntryRecord(cfg.programs[i])],
     accounts |-> [i \in 1..Len(cfg.accounts) |-> EntryRecord(cfg.accounts[i])],
     overrides |-> cfg.overrides,
     idls |-> cfg.idls,
     networks |-> cfg.networks,
     compose |-> cfg.compose]

ComposeReturns(res, val) ==
    /\ pc' = "done"
    /\ last' = [Idle EXCEPT !.op = "try_compose", !.res = res, !.val = val]

\* lines 197-199
ComposeStart ==
    /\ pc = "idle"
    /\ this_ctx' = ConfigJsonFrom(Ctx)
    /\ compose_count' = 0
    /\ new_config_path' = compose
    /\ pc' = "loop"
    /\ UNCHANGED <<ctxVars, last, calls, replay, configs, loads>>

\* line 204: the chain is longer than the bound
ComposeDepthExceeded ==
    /\ pc = "loop"
    /\ new_config_path.some
    /\ DepthExceeded(compose_count + 1)
    /\ compose_count' = compose_count + 1
    /\ ComposeReturns("err_depth", 0)
    /\ UNCHANGED <<ctxVars, calls, replay, configs, this_ctx, new_config_path, loads>>

\* line 206: the parent's config cannot be opened
ComposeOpenFailed ==
    /\ pc = "loop"
    /\ new_config_path.some
    /\ ~DepthExceeded(compose_count + 1)
    /\ ~try_open_config(new_config_path.name).ok
    /\ compose_count' = compose_count + 1
    /\ ComposeReturns("err_open", 0)
    /\ UNCHANGED <<ctxVars, calls, replay, configs, this_ctx, new_config_path, loads>>

ComposeMerge_WritesThrough ==
    /\ pc = "loop"
    /\ new_config_path.some
    /\ ~DepthExceeded(compose_count + 1)
    /\ try_open_config(new_config_path.name).ok
    /\ LET new_ctx == try_open_config(new_config_path.name).config IN
        /\ this_ctx' = Merge(this_ctx, new_ctx)
        /\ new_config_path' = new_ctx.compose
        /\ saved' = ConfigJsonFrom(to_context(Merge(this_ctx, new_ctx)))
    /\ compose_count' = compose_count + 1
    /\ loads' = loads + 1
    /\ UNCHANGED <<programs, accounts, overrides, idls, networks, compose, disc,
                   last, calls, replay, configs, pc>>

\* lines 206-231: one parent opened and merged
ComposeMerge ==
    /\ pc = "loop"
    /\ new_config_path.some
    /\ ~DepthExceeded(compose_count + 1)
    /\ try_open_config(new_config_path.name).ok
    /\ LET new_ctx == try_open_config(new_config_path.name).config IN
        /\ this_ctx' = Merge(this_ctx, new_ctx)
        /\ new_config_path' = new_ctx.compose
    /\ compose_count' = compose_count + 1
    /\ loads' = loads + 1
    /\ UNCHANGED <<ctxVars, last, calls, replay, configs, pc>>

\* line 201: no parent is left
ComposeExit ==
    /\ pc = "loop"
    /\ ~new_config_path.some
    /\ pc' = "merged"
    /\ UNCHANGED <<ctxVars, last, calls, replay, configs, this_ctx, compose_count,
                   new_config_path, loads>>

\* lines 233-236: the merged config becomes a context and is written back
ComposeFinish ==
    /\ pc = "merged"
    /\ \E install \in BOOLEAN, save \in BOOLEAN :
        IF ~install
        THEN ComposeReturns("err_install", 0) /\ saved' = saved
        ELSE IF ~save
        THEN ComposeReturns("err_save", 0) /\ saved' = saved
        ELSE ComposeReturns("ok", compose_count)
             /\ saved' = ConfigJsonFrom(to_context(this_ctx))
    /\ UNCHANGED <<programs, accounts, overrides, idls, networks, compose, disc,
                   calls, replay, configs, this_ctx, compose_count, new_config_path, loads>>

NextCompose ==
    \/ ComposeStart
    \/ ComposeDepthExceeded
    \/ ComposeOpenFailed
    \/ ComposeMerge
    \/ ComposeExit
    \/ ComposeFinish

----------------------------------------------------------------------------
(* The projects try_compose runs on.                                        *)

\* the contents of a config: sequences of element numbers
Elems == 1..3
AllShapes == UNION {[1..n -> Elems] : n \in 0..MaxLen}
DupFree(s) == \A i, j \in 1..Len(s) : s[i] = s[j] => i = j
Shapes == {s \in AllShapes : DupFree(s)}

\* two of the elements agree on the identifier and differ in the rest
ElemKey(i) == IF i = 3 THEN "B" ELSE "A"
ElemNet(i) == IF i = 2 THEN "mainnet" ELSE "devnet"
ElemRecord(i) == AccountSchema(ElemKey(i), ElemNet(i), Ledger["A"])
ElemEntry(i) == <<ElemKey(i), ElemNet(i)>>
ElemIdl(i) == ElemEntry(i)[1] \o ElemEntry(i)[2]
ElemOverride(i) == Override(ElemKey(i), <<Lamports(i)>>)

ShapeOverrides(s, some) ==
    IF some THEN SomeList([i \in 1..Len(s) |-> ElemOverride(s[i])]) ELSE NoList

\* the config file of a sibling project
ShapeConfig(s, some, link) ==
    [programs |-> [i \in 1..Len(s) |-> ElemEntry(s[i])],
     accounts |-> [i \in 1..Len(s) |-> ElemEntry(s[i])],
     overrides |-> ShapeOverrides(s, some),
     idls |-> [i \in 1..Len(s) |-> ElemIdl(s[i])],
     networks |-> {ElemNet(s[i]) : i \in 1..Len(s)},
     compose |-> link]

\* where the last config of a chain of n parents points
Tails == {"end", "missing", "self", "first"}
TailLink(n, tail) ==
    CASE tail = "end" -> NoName
      [] tail = "missing" -> SomeName(n + 1)
      [] tail = "self" -> SomeName(n)
      [] tail = "first" -> SomeName(0)

Link(i, n, tail) == IF i < n THEN SomeName(i + 1) ELSE TailLink(n, tail)

\* a project whose compose chain has n parents; the parents' contents
\* alternate between s1 and s2
InitProject(n, tail, sc, s1, s2, mine, theirs) ==
    /\ programs = [i \in 1..Len(sc) |-> ElemRecord(sc[i])]
    /\ accounts = [i \in 1..Len(sc) |-> ElemRecord(sc[i])]
    /\ overrides = ShapeOverrides(sc, mine)
    /\ idls = [i \in 1..Len(sc) |-> ElemIdl(sc[i])]
    /\ networks = {ElemNet(sc[i]) : i \in 1..Len(sc)}
    /\ compose = Link(0, n, tail)
    /\ saved = ShapeConfig(sc, mine, Link(0, n, tail))
    /\ disc = NoDisc
    /\ last = Idle
    /\ calls = 0
    /\ configs = [i \in 1..n |->
                    ShapeConfig(IF i % 2 = 1 THEN s1 ELSE s2, theirs, Link(i, n, tail))]
    /\ pc = "idle"
    /\ this_ctx = ConfigJsonFrom(EmptyCtx)
    /\ compose_count = 0
    /\ new_config_path = NoName
    /\ loads = 0
    /\ replay = ReplayIdle

\* chains of every length, the contents fixed
InitDeep ==
    \E n \in 0..MaxChain, tail \in Tails :
        InitProject(n, tail, <<1>>, <<1, 3>>, <<2>>, TRUE, TRUE)

\* short chains that end, the contents varied
InitRich ==
    \E n \in 0..MaxRichChain, tail \in {"end", "missing"}, sc \in AllShapes,
       s1 \in Shapes, s2 \in {s \in Shapes : Len(s) < MaxLen},
       mine \in BOOLEAN, theirs \in BOOLEAN :
        InitProject(n, tail, sc, s1, s2, mine, theirs)

InitCompose == InitDeep \/ InitRich

SpecCompose == InitCompose /\ [][NextCompose]_vars

\* try_compose is one synchronous call: it runs until it returns
SpecComposeFair == InitCompose /\ [][NextCompose]_vars /\ WF_vars(NextCompose)

----------------------------------------------------------------------------
(* An edit list applied twice in succession to one record.                  *)

\* the contexts that two adds leave when every collaborator answers
AfterAdds(c) ==
    {add_program(c, net, k, Up).c : net \in Networks, k \in AddKeys}
    \cup {add_account(c, net, k, Up).c : net \in Networks, k \in AddKeys}
ReplayContexts == UNION {AfterAdds(c) : c \in AfterAdds(EmptyCtx)}

ReplayEdits == {Lamports(2), Lamports(3), Owner("X"), UpgradeAuthority("X")}
EditLists == UNION {[1..n -> ReplayEdits] : n \in 1..MaxEdits}

\* the edits each function has an arm for (edit_account: lines 355-364)
HasArm(op, e) == op = "edit_program" \/ e.tag \in {"Lamports", "Owner"}

RECURSIVE RecordsOf(_, _)
\* the records of s that bear the identifier k, in the order of s
RecordsOf(s, k) ==
    IF s = <<>> THEN <<>>
    ELSE (IF Head(s).pubkey = k THEN <<Head(s)>> ELSE <<>>) \o RecordsOf(Tail(s), k)

InitReplay ==
    \E c \in ReplayContexts, k \in EditKeys, op \in {"edit_account", "edit_program"},
       es \in EditLists :
        /\ has_account(c, k)
        /\ \A i \in 1..Len(es) : HasArm(op, es[i])
        /\ programs = c.programs
        /\ accounts = c.accounts
        /\ overrides = c.overrides
        /\ idls = c.idls
        /\ networks = c.networks
        /\ compose = c.compose
        /\ saved = c.saved
        /\ disc = c.disc
        /\ last = Idle
        /\ calls = 0
        /\ ComposeIdle
        /\ replay = [key |-> k, op |-> op, edits |-> es, i |-> 1, pass |-> 1,
                     first |-> <<>>, st |-> "run"]

\* the next edit of the list is applied; the list is gone through twice, and
\* given up at the first edit that returns an error
ReplayEdit ==
    /\ replay.st = "run"
    /\ \E o \in EditOracles :
          LET e == replay.edits[replay.i]
              r == IF replay.op = "edit_account"
                   THEN edit_account(Ctx, replay.key, e, o)
                   ELSE edit_program(Ctx, replay.key, e, o)
          IN  /\ Outcome(r, replay.op, replay.key, None, <<e>>)
              /\ replay' =
                    IF r.res # "ok" THEN [replay EXCEPT !.st = "failed"]
                    ELSE IF replay.i < Len(replay.edits)
                         THEN [replay EXCEPT !.i = @ + 1]
                    ELSE IF replay.pass = 1
                         THEN [replay EXCEPT !.i = 1, !.pass = 2,
                                             !.first = RecordsOf(r.c.accounts, replay.key)]
                    ELSE [replay EXCEPT !.st = "done"]

SpecReplay == InitReplay /\ [][ReplayEdit]_vars

----------------------------------------------------------------------------
(* The entity store.                                                        *)

StoreUnchanged ==
    /\ programs' = programs
    /\ accounts' = accounts
    /\ idls' = idls
    /\ networks' = networks

\* C1: an add of k that directly follows a successful add of the same k
\* (add_program after add_program, add_account after add_account) leaves
\* programs, accounts, idls and networks as they were and makes no call to
\* the remote fetch collaborator, for every k, the system identifiers included
C1_IdempotentAdd ==
    [][(/\ last.op \in {"add_program", "add_account"}
        /\ last.res = "ok"
        /\ last'.op = last.op
        /\ last'.key = last.key)
       => (StoreUnchanged /\ last'.fetches = 0)]_vars

Unique(s) == \A i, j \in 1..Len(s) : s[i].pubkey = s[j].pubkey => i = j

\* C2: no two records of accounts share an identifier, and no two records of
\* programs share an identifier
C2_UniqueIdentifiers == Unique(accounts) /\ Unique(programs)

Front(s) == SubSeq(s, 1, Len(s) - 1)

\* C3: a successful add_program(E), E not a system identifier and not yet in
\* programs, appends the record of E to programs and the record of E's data
\* resource to accounts, and adds nothing else to either
C3_DependencyClosure ==
    [][(/\ last'.op = "add_program"
        /\ last'.res = "ok"
        /\ ~IsSystemId(last'.key)
        /\ ~has_program(Ctx, last'.key))
       => (/\ Len(programs') = Len(programs) + 1
           /\ Front(programs') = programs
           /\ programs'[Len(programs')].pubkey = last'.key
           /\ Len(accounts') = Len(accounts) + 1
           /\ Front(accounts') = accounts
           /\ accounts'[Len(accounts')].pubkey = Ledger[last'.key].data.link)]_vars

\* an executable was added to a context that already held an account
C3_Witness ==
    /\ last.op = "add_program"
    /\ last.res = "ok"
    /\ last.key = "P"
    /\ Len(programs) = 1
    /\ Len(accounts) = 2
    /\ accounts[1].pubkey = "A"

\* C4: no record of programs or accounts bears a system identifier
C4_NoSystemEntry ==
    /\ \A i \in 1..Len(accounts) : ~IsSystemId(accounts[i].pubkey)
    /\ \A i \in 1..Len(programs) : ~IsSystemId(programs[i].pubkey)

----------------------------------------------------------------------------
(* The edits and the journal.                                               *)

EditOf(l) == l.edits[1]

ValidEdit(l) ==
    \/ l.op = "edit_account" /\ EditOf(l).tag \in {"Lamports", "Owner"}
    \/ l.op = "edit_program" /\ EditOf(l).tag \in {"Lamports", "Owner", "UpgradeAuthority"}

\* the record an edit of k takes, and the record it puts back
Taken(k) == accounts[Position(accounts, k, 1)]
PutBack == accounts'[Len(accounts')]

EditedAs(r, e, r2) ==
    CASE e.tag = "Lamports" -> r2 = [r EXCEPT !.lamports = e.val]
      [] e.tag = "Owner" -> r2 = [r EXCEPT !.owner = e.key]
      [] e.tag = "UpgradeAuthority" ->
            /\ r2.data.auth = e.key
            /\ r2.data.kind = "ProgramData"
            /\ [r2 EXCEPT !.data = r.data] = r

\* C8: after a valid edit of the record R of accounts returned successfully,
\* accounts still holds a record with R's identifier, that record has the
\* edited field at the edit's value and every other field as in R, and
\* every other record of accounts and every record of programs is as before
C8_EditRoundTrip ==
    [][(/\ last'.op \in {"edit_account", "edit_program"}
        /\ last'.res = "ok"
        /\ ValidEdit(last')
        /\ has_account(Ctx, last'.key))
       => (/\ Position(accounts', last'.key, 1) # 0
           /\ PutBack.pubkey = last'.key
           /\ EditedAs(Taken(last'.key), EditOf(last'), PutBack)
           /\ Front(accounts') = RemoveAt(accounts, Position(accounts, last'.key, 1))
           /\ programs' = programs)]_vars

\* the upgrade authority of a program data record was edited while accounts
\* held another record
C8_Witness ==
    /\ last.op = "edit_program"
    /\ last.res = "ok"
    /\ EditOf(last).tag = "UpgradeAuthority"
    /\ Len(accounts) = 2
    /\ accounts[2].data.auth = "X"

RECURSIVE Flatten(_)
\* the edits of a journal, in journal order and list order, each with its target
Flatten(js) ==
    IF js = <<>> THEN <<>>
    ELSE [i \in 1..Len(Head(js).edit_fields) |->
            [pubkey |-> Head(js).pubkey, edit |-> Head(js).edit_fields[i]]]
         \o Flatten(Tail(js))

RECURSIVE LastEdit(_, _, _, _)
\* index in fs of the last edit of kind tag that targets k, at or before i; 0 if none
LastEdit(fs, k, tag, i) ==
    IF i = 0 THEN 0
    ELSE IF fs[i].pubkey = k /\ fs[i].edit.tag = tag THEN i
    ELSE LastEdit(fs, k, tag, i - 1)

Journal == Flatten(overrides.list)

\* C9: after apply_overrides returned, every record of accounts that the
\* journal targets with SetBalance or SetOwner edits has the balance and the
\* owner of the last such edit in journal order
C9_JournalApplied ==
    last.op = "apply_overrides" =>
        \A i \in 1..Len(accounts) :
            LET k == accounts[i].pubkey
                b == LastEdit(Journal, k, "Lamports", Len(Journal))
                w == LastEdit(Journal, k, "Owner", Len(Journal))
            IN  /\ b # 0 => accounts[i].lamports = Journal[b].edit.val
                /\ w # 0 => accounts[i].owner = Journal[w].edit.key

\* C10: from the context that add_program(P) leaves, with the override
\* {P.data, [SetUpgradeAuthority(X)]} recorded, apply_overrides leaves P.data
\* in accounts with upgrade authority Some(X)
C10_UpgradeAuthorityScenario ==
    [][(/\ last'.op = "apply_overrides"
        /\ Len(programs) = 1 /\ programs[1].pubkey = "P"
        /\ Len(accounts) = 1 /\ accounts[1].pubkey = "PD"
        /\ overrides = SomeList(<<Override("PD", <<UpgradeAuthority("X")>>)>>))
       => (/\ has_account(Ctx', "PD")
           /\ \A i \in 1..Len(accounts') :
                accounts'[i].pubkey = "PD" => accounts'[i].data.auth = "X")]_vars

----------------------------------------------------------------------------
(* The compose resolver.                                                    *)

\* the compose reference of the config named n (the merge leaves the
\* project's own reference as it is)
LinkOf(n) == IF n = 0 THEN compose ELSE configs[n].compose
Opens(n) == n = 0 \/ n \in DOMAIN configs

RECURSIVE ChainFrom(_, _)
\* the names of the parents that open one after the other from link, at most fuel
ChainFrom(link, fuel) ==
    IF fuel = 0 \/ ~link.some THEN <<>>
    ELSE IF ~Opens(link.name) THEN <<>>
    ELSE <<link.name>> \o ChainFrom(LinkOf(link.name), fuel - 1)

\* the chain of the project, cut after MaxComposeDepth + 1 parents
Chain == ChainFrom(compose, MaxComposeDepth + 1)
\* the chain ends after its last parent: that parent names no further one
ChainEnds == IF Chain = <<>> THEN ~compose.some ELSE ~LinkOf(Chain[Len(Chain)]).some

\* C5: when try_compose has returned on a chain of exactly 20 parents that
\* all open, it has not failed for the depth or for a parent, and its success
\* returns 20 (a failure is then a failure to write the merged config back);
\* on a chain of 21 or more parents it has failed with the depth error
C5_ComposeDepthBound ==
    pc = "done" =>
        /\ (Len(Chain) = MaxComposeDepth /\ ChainEnds) =>
                /\ last.res \in {"ok", "err_install", "err_save"}
                /\ last.res = "ok" => last.val = MaxComposeDepth
        /\ Len(Chain) > MaxComposeDepth => last.res = "err_depth"

\* a chain of 20 parents was composed
C5_Witness ==
    /\ pc = "done"
    /\ Len(Chain) = MaxComposeDepth
    /\ ChainEnds
    /\ last.res = "ok"
    /\ last.val = MaxComposeDepth

\* C6: try_compose opens at most 20 parent configs and returns, whatever the
\* chain of parents is, a config that is its own parent and a cycle included
C6_ComposeTerminates == [](loads <= MaxComposeDepth) /\ <>(pc = "done")

\* try_compose returned on a project that is its own parent
C6_Witness ==
    /\ pc = "done"
    /\ compose = SomeName(0)
    /\ loads = MaxComposeDepth
    /\ last.res = "err_depth"

RECURSIVE Ascending(_)
\* the elements of a set of numbers, in increasing order
Ascending(S) ==
    IF S = {} THEN <<>>
    ELSE LET m == CHOOSE x \in S : \A y \in S : x <= y
         IN  <<m>> \o Ascending(S \ {m})

\* s without the elements that occur earlier in s
FirstOccurrences(s) ==
    LET keep == Ascending({i \in 1..Len(s) : \A j \in 1..(i - 1) : s[j] # s[i]})
    IN  [n \in 1..Len(keep) |-> s[keep[n]]]

\* the parents merged so far
Merged == ChainFrom(compose, loads)
ConfigOf(n) == IF n = 0 THEN saved ELSE configs[n]

RECURSIVE Concat(_)
Concat(ss) == IF ss = <<>> THEN <<>> ELSE Head(ss) \o Concat(Tail(ss))

NoTwoEqual(s) == \A i, j \in 1..Len(s) : s[i] = s[j] => i = j
StartsWith(s, t) == Len(t) <= Len(s) /\ SubSeq(s, 1, Len(t)) = t

MergedInOrder(mine, theirs, got) ==
    /\ got = FirstOccurrences(mine \o Concat(theirs))
    /\ StartsWith(got, mine)
    /\ NoTwoEqual(got)

\* C7: when the lists of the project have no two equal elements (the
\* parents' have none), each merged list is the project's list followed by the
\* parents' elements that were not yet present, in the order met, and has no
\* two equal elements
C7_ComposeMerge ==
    LET mine == ConfigJsonFrom(Ctx)
        n == Len(Merged)
    IN  (/\ pc \in {"loop", "merged"}
         /\ NoTwoEqual(mine.accounts) /\ NoTwoEqual(mine.programs) /\ NoTwoEqual(mine.idls))
        => /\ MergedInOrder(mine.accounts, [i \in 1..n |-> ConfigOf(Merged[i]).accounts],
                              this_ctx.accounts)
           /\ MergedInOrder(mine.programs, [i \in 1..n |-> ConfigOf(Merged[i]).programs],
                              this_ctx.programs)
           /\ MergedInOrder(mine.idls, [i \in 1..n |-> ConfigOf(Merged[i]).idls],
                              this_ctx.idls)

\* two parents were merged, one element of theirs was already present
C7_Witness ==
    /\ pc = "merged"
    /\ loads = 2
    /\ Len(accounts) = 1
    /\ Len(configs[1].accounts) = 2
    /\ Len(configs[2].accounts) = 1
    /\ Len(this_ctx.accounts) = 3

----------------------------------------------------------------------------
(* The replay of the journal.                                               *)

\* the journal is not empty, and its entries all target records of accounts
\* with edits that the plain-account path takes
JournalApplicable ==
    /\ Journal # <<>>
    /\ \A i \in 1..Len(Journal) :
          /\ has_account(Ctx, Journal[i].pubkey)
          /\ Journal[i].edit.tag \in {"Lamports", "Owner"}

\* C11: a run of apply_overrides on a journal whose entries all target
\* present records with valid edits appends one journal entry per edit of the
\* journal, so the journal is strictly longer after the run than before it
\* (after a second run than after the first)
C11_ReplayGrowsJournal ==
    [][(last'.op = "apply_overrides" /\ JournalApplicable)
       => (/\ overrides'.some
           /\ Len(overrides'.list) = Len(overrides.list) + Len(Journal)
           /\ Len(overrides'.list) > Len(overrides.list))]_vars

\* C13: apply_overrides does not return success when the journal holds a
\* SetUpgradeAuthority edit whose target is a record of accounts (the
\* plain-account path)
C13_UnsupportedSurfaced ==
    [][(/\ last'.op = "apply_overrides"
        /\ \E i \in 1..Len(Journal) :
              /\ has_account(Ctx, Journal[i].pubkey)
              /\ Journal[i].edit.tag = "UpgradeAuthority")
       => last'.res # "ok"]_vars

\* C12: when an edit list has been applied to a record twice in succession,
\* every edit returning successfully, the records of accounts that bear the
\* record's identifier are as they were after the first application
C12_ReplayDeterminism ==
    replay.st = "done" => RecordsOf(accounts, replay.key) = replay.first

----------------------------------------------------------------------------
(* Failures.                                                                *)

\* C14: when edit_account or edit_program has found its target and returns an
\* error (unsupported edit, re-encoding failure, per-record save failure),
\* accounts still holds the target record with its original field values,
\* holds as many records as before, and the journal is as before
C14_FailedEditKeepsRecord ==
    [][(/\ last'.op \in {"edit_account", "edit_program"}
        /\ last'.res \in {"err_unsupported", "err_encode", "err_disc"})
       => (/\ \E i \in 1..Len(accounts') : accounts'[i] = Taken(last'.key)
           /\ Len(accounts') = Len(accounts)
           /\ overrides' = overrides)]_vars

\* C15: when add_program or add_account returns an error because a remote
\* fetch failed (of the target, of the owner executable, of the data
\* resource), programs, accounts, idls and networks are as before the call
C15_FailedFetchKeepsContext ==
    [][(/\ last'.op \in {"add_program", "add_account"}
        /\ last'.res = "err_fetch")
       => StoreUnchanged]_vars

----------------------------------------------------------------------------
(* The persisted config.                                                    *)

C16_PersistedAfterMutation ==
    (/\ last.op \in {"add_program", "add_account", "add_override", "edit_account",
                     "edit_program"}
     /\ last.res = "ok")
    => saved = ConfigJsonFrom(Ctx)

----------------------------------------------------------------------------
(* The metadata descriptor.                                                 *)

\* C18: adding an executable E that is no system identifier and not yet in
\* programs (by add_program(E), or as the owner of an added account), the
\* fetches and the config write going through: when the descriptor lookup
\* fails the add succeeds, E is in programs, E's data resource in accounts,
\* idls is unchanged and the config is persisted; when the lookup succeeds E's
\* identifier is appended to idls exactly once
C18_DescriptorBestEffort ==
    \A net \in Networks, k \in AddKeys, found \in BOOLEAN :
        LET o == [Up EXCEPT !.idl = found]
            E == IF Ledger[k].executable THEN k ELSE Ledger[k].owner
            r == IF Ledger[k].executable THEN add_program(Ctx, net, k, o)
                 ELSE add_account(Ctx, net, k, o)
        IN  (/\ ~IsSystemId(E)
             /\ ~has_program(Ctx, E)
             /\ Ledger[k].executable \/ ~has_account(Ctx, k))
            => /\ r.res = "ok"
               /\ has_program(r.c, E)
               /\ has_account(r.c, Ledger[E].data.link)
               /\ r.c.saved = ConfigJsonFrom(r.c)
               /\ r.c.idls = IF found THEN Append(idls, E) ELSE idls

\* P was added and its descriptor was not found
C18_Witness ==
    /\ last.op = "add_program"
    /\ last.res = "ok"
    /\ last.key = "P"
    /\ last.fetches = 3
    /\ has_program(Ctx, "P")
    /\ has_account(Ctx, "PD")
    /\ idls = <<>>
    /\ saved = ConfigJsonFrom(Ctx)

----------------------------------------------------------------------------
(* The overrides in try_compose.                                            *)

RECURSIVE Without(_, _)
\* the elements of s that do not occur in t, in the order of s
Without(s, t) ==
    IF s = <<>> THEN <<>>
    ELSE (IF Contains(t, Head(s)) THEN <<>> ELSE <<Head(s)>>) \o Without(Tail(s), t)

\* C19: while try_compose merges, a project without an overrides list has a
\* merged config without one, whatever overrides its parents carry; a project
\* with an overrides list has that list followed by each override of the
\* parents that was not yet present, once, in the order met
C19_ComposeOverrides ==
    LET n == Len(Merged)
        theirs == Concat([i \in 1..n |-> ConfigOf(Merged[i]).overrides.list])
    IN  pc \in {"loop", "merged"}
        => /\ ~overrides.some => this_ctx.overrides = NoList
           /\ overrides.some =>
                this_ctx.overrides =
                    SomeList(overrides.list \o Without(FirstOccurrences(theirs), overrides.list))

\* a project without an overrides list was merged with a parent that has overrides
C19_Witness ==
    /\ pc = "merged"
    /\ ~overrides.some
    /\ loads >= 1
    /\ configs[1].overrides.some
    /\ configs[1].overrides.list # <<>>
    /\ ~this_ctx.overrides.some

----------------------------------------------------------------------------
(* The executable path of the edits.                                        *)

\* the journal has an entry for a record of programs, and none for a record
\* of accounts
ExecutablePathOnly ==
    /\ \E i \in 1..Len(Journal) : has_program(Ctx, Journal[i].pubkey)
    /\ \A i \in 1..Len(Journal) : ~has_account(Ctx, Journal[i].pubkey)

\* C20: edit_program(k, e) with no record k in accounts returns the not-found
\* error and leaves programs, accounts and the journal as they were, also
\* when programs holds k; and apply_overrides on a journal whose entries go
\* to the executable path changes no record
C20_ExecutablePathNotFound ==
    [][/\ (last'.op = "edit_program" /\ ~has_account(Ctx, last'.key))
          => (/\ last'.res = "err_notfound"
              /\ programs' = programs
              /\ accounts' = accounts
              /\ overrides' = overrides)
       /\ (last'.op = "apply_overrides" /\ ExecutablePathOnly)
          => (programs' = programs /\ accounts' = accounts)]_vars

\* edit_program was called for P, which programs holds and accounts does not
C20_Witness ==
    /\ last.op = "edit_program"
    /\ last.key = "P"
    /\ last.res = "err_notfound"
    /\ has_program(Ctx, "P")
    /\ ~has_account(Ctx, "P")
    /\ Len(accounts) = 1

----------------------------------------------------------------------------
(* The frame of try_compose.                                                *)

\* C21: no step of try_compose changes the programs, accounts, overrides,
\* idls, networks or compose reference of the context it was called on, and
\* the aggregate config file changes only in the write-back step, taken after
\* the whole chain was merged: a call that returns an error (depth exceeded,
\* a parent that cannot be loaded) leaves the file as it was
C21_ComposeFrame ==
    [][/\ programs' = programs
       /\ accounts' = accounts
       /\ overrides' = overrides
       /\ idls' = idls
       /\ networks' = networks
       /\ compose' = compose
       /\ saved' # saved => (pc = "merged" /\ ~new_config_path.some)
       /\ (pc' = "done" /\ last'.res \in {"err_depth", "err_open"}) => saved' = saved]_vars

\* try_compose failed at a parent that cannot be loaded, after it had merged
\* a parent with an account the project did not have; the file is that of
\* the project
C21_Witness ==
    /\ pc = "done"
    /\ last.res = "err_open"
    /\ loads >= 1
    /\ Len(this_ctx.accounts) > Len(accounts)
    /\ saved = ConfigJsonFrom(Ctx)

====
